---- MODULE Spec2Model ----
(***************************************************************************)
(* Request-admission and middleware-pipeline core of go-micro (pkg/micro): *)
(* the per-client rate limiter with its background cleanup goroutine, the  *)
(* middleware chain installed on the mux router, the error-normalization   *)
(* path and the Start / gracefulShutdown lifecycle.                        *)
(*                                                                         *)
(* Time is a discrete clock `now`.  golang.org/x/time/rate.Limiter and     *)
(* net/http.Server are libraries; they are modelled by their documented    *)
(* behaviour at the places where the repository calls them.                *)
(***************************************************************************)
EXTENDS Integers, Sequences, FiniteSets, TLC

\* ------------------------------------------------------------------ bounds
MaxReq == 2            \* requests accepted by the server in one run
MaxTime == 2           \* last value of the clock
TTL == 1               \* Config.RateLimiter.TTL, in clock units
ShutdownTimeout == 1   \* Config.ShutdownTimeout, in clock units
MaxCalls == 4          \* Allow() calls of the token-bucket scenario beyond burst+rate
MaxUse == 1            \* App.Use calls made by the application after NewApp

\* ------------------------------------------------------------- vocabulary
NoHolder == 0          \* sync.Mutex unlocked
Sweeper == -1          \* the cleanup goroutine as holder of rl.mu
NoLimiter == 0         \* nil *rate.Limiter
NoID == 0              \* the empty string as a request id
NoKey == ""            \* the empty client identifier

Strategies == {"ip", "token", "global"}

\* typed context keys: context.Value compares keys with ==, type included
contextKeyRequestID == <<"contextKey", "request_id">>
stringKeyRequestID == <<"string", "request_id">>

\* request inputs the identity resolver reads
Inputs ==
  { [xff |-> "", remote |-> "10.0.0.1", auth |-> ""],
    [xff |-> "1.1.1.1", remote |-> "10.0.0.1", auth |-> "tok"] }

\* what the business handler does with the request
HandlerOutcomes ==
  {"ok", "apiError", "plainError", "writeThenError", "panic", "writeThenPanic"}

\* rate / burst pairs (per clock unit) of the token-bucket scenario
BucketConfigs == { <<1, 1>>, <<1, 2>>, <<2, 1>>, <<10, 20>> }

VARIABLES
  Config,        \* App.Config (immutable after NewApp)
  appState,      \* lifecycle position of Start / gracefulShutdown
  startResult,   \* what Start returned: "none", "nil", "error"
  middleware,    \* App.middleware, filled by App.Use
  routerUse,     \* the mux router's middleware list, in Router.Use order
  limiters,      \* rateLimiter.limiters: key -> [limiter, lastSeen]
  buckets,       \* heap of rate.Limiter objects: id -> [key, tokens, last]
  evicted,       \* ids of limiter objects deleted from the map by a sweep
  sweepLog,      \* the last completed sweep: did it remove a visitor, did it
                 \* keep one that was idle for exactly TTL
  mu,            \* rateLimiter.mu: NoHolder, a request id, or Sweeper
  cleanupStopped,\* rateLimiter.cleanup.Stop() has been called
  sweepPc,       \* position of cleanupStaleVisitors: "recv", "lock", "scan"
  cleanupC,      \* rateLimiter.cleanup.C holds a tick (the channel buffers one)
  highSeen,      \* per key, the latest lastSeen the registry ever recorded
  ctxCancelled,  \* App.cancel() has been called
  deadline,      \* deadline of the context handed to server.Shutdown
  draining,      \* requests were in flight when server.Shutdown was called
  wg,            \* App.wg counter
  now,           \* the clock
  nextXid,       \* xid generator state
  req,           \* per request: inputs, position in the chain, response
  calls,         \* token-bucket scenario: results of successive Allow() calls
  errShared,     \* a package-level *APIError value (such as ErrInternalServer)
  healthChecks   \* App.healthChecks: the names registered by AddHealthCheck

vars == << Config, appState, startResult, middleware, routerUse, limiters,
           buckets, evicted, sweepLog, mu, cleanupStopped, sweepPc, cleanupC,
           highSeen, ctxCancelled, deadline, draining, wg, now, nextXid, req,
           calls, errShared, healthChecks >>

Requests == 1..MaxReq

\* ---------------------------------------------------------------- helpers
Min(a, b) == IF a < b THEN a ELSE b

Range(s) == { s[i] : i \in 1..Len(s) }

Reverse(s) == [ i \in 1..Len(s) |-> s[Len(s) + 1 - i] ]

\* context.Context as a set of <<key, value>> pairs; 0 when the key is absent
ctxValue(ctx, key) ==
  IF \E p \in ctx : p[1] = key
  THEN (CHOOSE p \in ctx : p[1] = key)[2]
  ELSE NoID


\* ------------------------------------------------- configuration, NewApp
\* App.Use: append to App.middleware
Use(mws, m) == Append(mws, m)

\* setupDefaultMiddleware: the a.Use(...) calls, in source order
defaultMiddleware(cfg) ==
  LET m1 == Use(Use(<< >>, "requestID"), "securityHeaders")
      m2 == IF cfg.RateLimiterEnabled THEN Use(m1, "rateLimiter") ELSE m1
      m3 == IF cfg.MetricsEnabled THEN Use(m2, "metrics") ELSE m2
  IN  Use(Use(Use(m3, "log"), "recovery"), "timeout")

\* setupDefaultMiddleware: a.Router.Use(handlers.CORS(...)) goes straight to
\* the router, while NewApp is still running
defaultRouterUse(cfg) == IF cfg.CORSEnabled THEN << "cors" >> ELSE << >>

\* applyMiddleware: for _, m := range a.middleware { a.Router.Use(m) }
applyMiddleware(ru, mws) == ru \o mws

EmptyMap == [ k \in {} |-> 0 ]

\* the nil error
NoErr == [ api |-> FALSE, code |-> 0, text |-> "", details |-> FALSE ]

NewRequest ==
  [ in |-> [xff |-> "", remote |-> "", auth |-> ""],
    pc |-> "new", pos |-> 1,
    ctx |-> {},              \* r.Context() values
    lrw |-> << >>,           \* loggingResponseWriter wrappers, outermost first
    recDepth |-> -1,         \* wrappers around the w the recovery stage holds
    hdrReqID |-> NoID,       \* X-Request-ID in the header map
    retryAfter |-> 0,        \* Retry-After in the header map
    status |-> 0,            \* status line sent on the connection, 0 = none
    body |-> << >>,          \* JSON documents written to the body
    key |-> NoKey, exists |-> FALSE, lim |-> NoLimiter,
    denied |-> FALSE,
    trace |-> << >>,         \* stages entered, in order
    exits |-> << >>,         \* stages whose code after next.ServeHTTP ran
    handlerCalls |-> 0,
    getLimiterCalls |-> 0,   \* calls of rateLimiter.getLimiter for the request
    allowCalls |-> 0,        \* calls of limiter.Allow() for the request
    fault |-> "none",        \* how the business handler ended
    err |-> NoErr,           \* the error handleError was called with
    shared |-> FALSE,        \* that error is the package-level value
    apiErr |-> NoErr,        \* normalizeError's result when it is a fresh value
    usesSeen |-> 0,          \* length of App.middleware when accepted
    route |-> "",            \* the user route the request is for
    situation |-> "",        \* what its body, path and the stored data are
    results |-> EmptyMap,    \* healthHandler's results map: name -> status
    logStatus |-> 0, metricStatus |-> 0,
    outcome |-> "none" ]     \* "completed", "panicked", "forceClosed"

\* getClientIdentifier with the forwarded-for header ignored
getClientIdentifierRemoteOnly(cfg, in) ==
  CASE cfg.Strategy = "ip" -> in.remote
    [] cfg.Strategy = "token" -> in.auth
    [] cfg.Strategy = "global" -> "global"
    [] OTHER -> in.remote

\* getClientIdentifier
getClientIdentifier(cfg, in) ==
  CASE cfg.Strategy = "ip" -> IF in.xff = "" THEN in.remote ELSE in.xff
    [] cfg.Strategy = "token" -> in.auth
    [] cfg.Strategy = "global" -> "global"
    [] OTHER -> in.remote

MainConfigs ==
  [ Strategy : Strategies, RequestsPerS : {1}, Burst : {1},
    RateLimiterEnabled : {TRUE}, MetricsEnabled : {TRUE}, CORSEnabled : {TRUE},
    LogLevel : {"info"} ]

\* state after NewApp(config) returned, with the given requests
InitState(cfg, st, rs, shared) ==
  /\ Config = cfg
  /\ appState = st
  /\ startResult = "none"
  /\ middleware = defaultMiddleware(cfg)
  /\ routerUse = defaultRouterUse(cfg)
  /\ limiters = EmptyMap
  /\ buckets = << >>
  /\ evicted = {}
  /\ sweepLog = [ removed |-> FALSE, keptAtTTL |-> FALSE ]
  /\ mu = NoHolder
  /\ cleanupStopped = FALSE
  /\ sweepPc = "recv"
  /\ cleanupC = FALSE
  /\ highSeen = EmptyMap
  /\ ctxCancelled = FALSE
  /\ deadline = -1
  /\ draining = FALSE
  /\ wg = 0
  /\ now = 0
  /\ nextXid = 1
  /\ req = rs
  /\ calls = << >>
  /\ errShared = shared
  /\ healthChecks = {}

\* var ErrInternalServer = NewAPIError(500, "internal server error")
ErrInternalServer ==
  [ api |-> TRUE, code |-> 500, text |-> "internal server error",
    details |-> FALSE, request_id |-> NoID ]

InitWith(cfg, st) ==
  InitState(cfg, st,
            [ r \in Requests |->
                IF st = "Scenario" /\ r = 1
                THEN [ NewRequest EXCEPT
                         !.pc = "getLimiter",
                         !.key = getClientIdentifier(cfg, NewRequest.in) ]
                ELSE NewRequest ],
            ErrInternalServer)

Init == \E cfg \in MainConfigs : InitWith(cfg, "Created")

\* --------------------------------------------------- rate.Limiter (x/time)
\* rate.NewLimiter(limit, burst): starts full
NewLimiter(limit, burst, t) ==
  [ limit |-> limit, burst |-> burst, tokens |-> burst, last |-> t ]

\* the refill without its cap
advanceUnclamped(lim, t) == lim.tokens + (t - lim.last) * lim.limit

\* Limiter.advance: lazy refill, proportional to the elapsed time, capped
advance(lim, t) == Min(lim.burst, lim.tokens + (t - lim.last) * lim.limit)

\* Limiter.Allow at time t: takes one token when one is available
AllowOk(lim, t) == advance(lim, t) >= 1

AllowNext(lim, t) ==
  IF AllowOk(lim, t)
  THEN [ lim EXCEPT !.tokens = advance(lim, t) - 1, !.last = t ]
  ELSE lim

\* ---------------------------------------------------------- rateLimiter
\* getLimiter, line 56: rate.NewLimiter(rate.Limit(RequestsPerS), Burst)
newVisitorSwapped(cfg, t) == NewLimiter(cfg.Burst, cfg.RequestsPerS, t)

newVisitor(cfg, t) == NewLimiter(cfg.RequestsPerS, cfg.Burst, t)

\* Steps that touch only the request's own data (the stages up to the gate,
\* the wrappers, the handler's invocation) commute with every other step.
\* They run as soon as they are enabled, lowest request first; every other
\* step waits until no such step is pending.
Quiet == \A r \in Requests : req[r].pc # "stage"

\* rl.mu.Lock() can proceed
MuNeverHeld == TRUE

MuFree == mu = NoHolder

\* cleanupStaleVisitors, line 74: time.Since(v.lastSeen) > rl.config.TTL
StaleInclusive(v, t) == t - v.lastSeen >= TTL

Stale(v, t) == t - v.lastSeen > TTL

MapPut(m, k, v) == [ x \in DOMAIN m \cup {k} |-> IF x = k THEN v ELSE m[x] ]

MapRestrict(m, S) == [ x \in S |-> m[x] ]

\* getLimiter, line 54: v, exists := rl.limiters[key]
RegisteredNever(m, k) == FALSE

Registered(m, k) == k \in DOMAIN m

\* getLimiter, line 65: v.lastSeen = time.Now()
touchBackdated(v, t) == [ v EXCEPT !.lastSeen = t - 1 ]

touch(v, t) == [ v EXCEPT !.lastSeen = t ]

\* getLimiter returns with the lock still held by its caller
UnlockSkipped(holder) == holder

\* getLimiter: defer rl.mu.Unlock() -- runs when getLimiter returns
Unlock(holder) == NoHolder

\* getLimiter: rl.mu.Lock()
GetLimiterLock(r) ==
  /\ req[r].pc = "getLimiter"
  /\ Quiet
  /\ MuFree
  /\ mu' = r
  /\ req' = [ req EXCEPT ![r].pc = "lookup", ![r].getLimiterCalls = @ + 1 ]
  /\ UNCHANGED << Config, appState, startResult, middleware, routerUse,
                  limiters, buckets, evicted, sweepLog, cleanupStopped, sweepPc, cleanupC, highSeen, ctxCancelled, deadline, draining, wg, now, nextXid, calls, errShared, healthChecks >>

\* getLimiter: v, exists := rl.limiters[key]
GetLimiterLookup(r) ==
  /\ req[r].pc = "lookup"
  /\ Quiet
  /\ LET k == req[r].key
         found == Registered(limiters, k)
     IN  req' = [ req EXCEPT ![r].pc = "store",
                             ![r].exists = found,
                             ![r].lim = IF found THEN limiters[k].limiter
                                       ELSE NoLimiter ]
  /\ UNCHANGED << Config, appState, startResult, middleware, routerUse,
                  limiters, buckets, evicted, sweepLog, mu, cleanupStopped, sweepPc, cleanupC, highSeen, ctxCancelled, deadline, draining, wg, now, nextXid, calls, errShared, healthChecks >>

\* getLimiter: create the visitor or refresh v.lastSeen; deferred Unlock
GetLimiterStore(r) ==
  /\ req[r].pc = "store"
  /\ Quiet
  /\ LET k == req[r].key
         id == Len(buckets) + 1
     IN  IF ~ req[r].exists
         THEN /\ buckets' = Append(buckets, newVisitor(Config, now))
              /\ limiters' = MapPut(limiters, k,
                                    [limiter |-> id, lastSeen |-> now])
              /\ req' = [ req EXCEPT ![r].pc = "allow", ![r].lim = id,
                                      ![r].exists = FALSE ]
         ELSE /\ buckets' = buckets
              /\ limiters' =
                   IF k \in DOMAIN limiters /\ limiters[k].limiter = req[r].lim
                   THEN [ limiters EXCEPT ![k] = touch(@, now) ]
                   ELSE limiters
              /\ req' = [ req EXCEPT ![r].pc = "allow", ![r].exists = FALSE ]
  /\ highSeen' =
       LET k == req[r].key
       IN  IF k \in DOMAIN limiters'
           THEN MapPut(highSeen, k,
                       IF k \in DOMAIN highSeen
                          /\ highSeen[k] > limiters'[k].lastSeen
                       THEN highSeen[k] ELSE limiters'[k].lastSeen)
           ELSE highSeen
  /\ mu' = Unlock(r)
  /\ UNCHANGED << Config, appState, startResult, middleware, routerUse,
                  evicted, sweepLog, cleanupStopped, sweepPc, cleanupC,
                  ctxCancelled, deadline, draining, wg, now, nextXid, calls, errShared, healthChecks >>

\* time.NewTicker(10 * time.Minute): the runtime sends a tick on cleanup.C,
\* a channel with a buffer of one, until Stop is called (ticks that fall into
\* a running sweep are not kept: the period is long against a sweep)
TickerFire ==
  /\ Config.RateLimiterEnabled
  /\ Quiet
  /\ sweepPc = "recv"
  /\ ~ cleanupC
  /\ ~ cleanupStopped
  /\ cleanupC' = TRUE
  /\ UNCHANGED << Config, appState, startResult, middleware, routerUse,
                  limiters, buckets, evicted, sweepLog, mu, cleanupStopped,
                  sweepPc, highSeen, ctxCancelled, deadline, draining, wg,
                  now, nextXid, req, calls, errShared, healthChecks >>

\* cleanupStaleVisitors: for range rl.cleanup.C -- the goroutine takes the
\* tick out of the channel; Stop does not drain or close the channel
SweepRecv ==
  /\ Quiet
  /\ sweepPc = "recv"
  /\ cleanupC
  /\ cleanupC' = FALSE
  /\ sweepPc' = "lock"
  /\ UNCHANGED << Config, appState, startResult, middleware, routerUse,
                  limiters, buckets, evicted, sweepLog, mu, cleanupStopped,
                  highSeen, ctxCancelled, deadline, draining, wg, now,
                  nextXid, req, calls, errShared, healthChecks >>

\* a sweep is between its tick and its Unlock
SweepInProgress == sweepPc \in {"lock", "scan"}

\* cleanupStaleVisitors returns when the range over cleanup.C ends, that is
\* when the channel is closed; Ticker.Stop does not close it
EvictorTerminated == sweepPc = "returned"

\* cleanupStaleVisitors: rl.mu.Lock()
SweepLock ==
  /\ sweepPc = "lock"
  /\ Quiet
  /\ MuFree
  /\ mu' = Sweeper
  /\ sweepPc' = "scan"
  /\ UNCHANGED << Config, appState, startResult, middleware, routerUse,
                  limiters, buckets, evicted, sweepLog, cleanupStopped,
                  cleanupC, highSeen, ctxCancelled, deadline, draining, wg,
                  now, nextXid, req, calls, errShared, healthChecks >>

\* cleanupStaleVisitors: the scan with its deletes, then rl.mu.Unlock()
SweepScan ==
  /\ sweepPc = "scan"
  /\ Quiet
  /\ LET gone == { k \in DOMAIN limiters : Stale(limiters[k], now) }
     IN  /\ limiters' = MapRestrict(limiters, DOMAIN limiters \ gone)
         /\ evicted' = evicted \cup { limiters[k].limiter : k \in gone }
         /\ sweepLog' =
              [ removed |-> gone # {},
                keptAtTTL |-> \E k \in DOMAIN limiters \ gone :
                                now - limiters[k].lastSeen = TTL ]
  /\ mu' = NoHolder
  /\ sweepPc' = "recv"
  /\ UNCHANGED << Config, appState, startResult, middleware, routerUse,
                  buckets, cleanupStopped, cleanupC, highSeen, ctxCancelled,
                  deadline, draining, wg, now, nextXid, req, calls, errShared, healthChecks >>


\* ------------------------------------------------- response writing, errors
appVars == << Config, appState, startResult, middleware, routerUse,
              ctxCancelled, deadline, draining, wg >>

regVars == << limiters, buckets, evicted, sweepLog, mu, cleanupStopped, sweepPc,
             cleanupC, highSeen >>

\* the stage a request is about to enter; the route's handler after the last
StageOf(rq) ==
  IF rq.pos <= Len(routerUse) THEN routerUse[rq.pos] ELSE "handler"

Enter(rq, name) ==
  [ rq EXCEPT !.trace = Append(@, name), !.pos = @ + 1 ]

\* loggingResponseWriter.WriteHeader through the d innermost-known wrappers:
\* each records the code, the connection keeps the first status it was given
WriteHeader(rq, d, code) ==
  [ rq EXCEPT
      !.lrw = [ i \in 1..Len(rq.lrw) |->
                  IF i <= d THEN [ rq.lrw[i] EXCEPT !.statusCode = code ]
                  ELSE rq.lrw[i] ],
      !.status = IF @ = 0 THEN code ELSE @ ]

\* App.JSON: Content-Type, WriteHeader(status), Encode(data)
JSON(rq, d, code, doc) ==
  [ WriteHeader(rq, d, code) EXCEPT !.body = Append(@, doc) ]

\* getRequestIDFromContext: w.(*loggingResponseWriter) must hold, then
\* ctx.Value("request_id") with the plain string as key
IsLoggingWriter(d) == d > 0

getRequestIDFromContext(rq, d) == ctxValue(rq.lrw[d].context, stringKeyRequestID)

\* errors a handler returns: a typed *APIError (NewAPIError, with or without
\* details) or any other error, with its own text
APIErrWith(code, details) ==
  [ api |-> TRUE, code |-> code, text |-> "api message", details |-> details ]

APIErr(code) == APIErrWith(code, FALSE)

PlainErr ==
  [ api |-> FALSE, code |-> 0, text |-> "original text", details |-> FALSE ]

\* NewAPIError(http.StatusInternalServerError, "internal server error")
GenericMessage == "internal server error"

\* normalizeError with line 64 left out
normalizeErrorKeepsDetails(cfg, err, requestID) ==
  [ kind |-> "error",
    code |-> IF err.api THEN err.code ELSE 500,
    message |-> IF err.api THEN err.text ELSE GenericMessage,
    details |-> err.api /\ err.details,
    request_id |-> requestID ]

\* normalizeError: errors.As(err, &apiErr), else a fresh 500; RequestID set;
\* Details dropped unless LogLevel is debug
normalizeError(cfg, err, requestID) ==
  [ kind |-> "error",
    code |-> IF err.api THEN err.code ELSE 500,
    message |-> IF err.api THEN err.text ELSE GenericMessage,
    details |-> IF cfg.LogLevel # "debug" THEN FALSE
                ELSE err.api /\ err.details,
    request_id |-> requestID ]

\* handleError on a w that is a loggingResponseWriter
handleError(rq, d, err) ==
  LET apiError == normalizeError(Config, err, getRequestIDFromContext(rq, d))
  IN  JSON(rq, d, apiError.code, apiError)

\* index in rq.lrw of the wrapper created by the named stage
LrwIndexOf(rq, name) ==
  Cardinality({ i \in 1..Len(rq.trace) :
                  /\ rq.trace[i] \in {"metrics", "log"}
                  /\ \E j \in i..Len(rq.trace) : rq.trace[j] = name })

\* the serving goroutine's panic reaches net/http: the connection is closed,
\* nothing that was only buffered is sent
Aborted(rq) ==
  [ rq EXCEPT !.pc = "done", !.outcome = "panicked" ]

\* the call stack returns through every entered stage, innermost first;
\* log and metrics read the status their wrapper recorded
Returned(rq) ==
  LET stages == SelectSeq(rq.trace, LAMBDA s : s # "handler")
      li == LrwIndexOf(rq, "log")
      mi == LrwIndexOf(rq, "metrics")
  IN  IF "log" \in Range(rq.trace)
         /\ ctxValue(rq.lrw[li].context, contextKeyRequestID) = NoID
      THEN Aborted(rq)
      ELSE [ rq EXCEPT
               !.pc = "done",
               !.outcome = "completed",
               !.exits = Reverse(stages),
               !.logStatus = IF "log" \in Range(rq.trace)
                             THEN rq.lrw[li].statusCode ELSE 0,
               !.metricStatus = IF "metrics" \in Range(rq.trace)
                                THEN rq.lrw[mi].statusCode ELSE 0,
               !.status = IF @ = 0 THEN 200 ELSE @ ]

\* a panic unwinds to recoveryMiddleware's deferred function, if that stage
\* was entered: request id from r.Context(), then handleError(w, 500)
Panicked(rq) ==
  IF /\ "recovery" \in Range(rq.trace)
     /\ ctxValue(rq.ctx, contextKeyRequestID) # NoID
     /\ IsLoggingWriter(rq.recDepth)
  THEN Returned(handleError(rq, rq.recDepth, APIErr(500)))
  ELSE Aborted(rq)

\* App.Handle / App.JSONError: a.handleError(w, err) with the current w
HandleErrorHere(rq, err) ==
  IF IsLoggingWriter(Len(rq.lrw))
  THEN Returned(handleError(rq, Len(rq.lrw), err))
  ELSE Panicked(rq)

\* ------------------------------------------------------------ the pipeline
Serving == appState \in {"Running", "ShuttingDown"}

AtStage(r, name) ==
  /\ Serving
  /\ req[r].pc = "stage"
  /\ \A q \in Requests : q < r => req[q].pc # "stage"
  /\ StageOf(req[r]) = name

\* ListenAndServe has bound the port and accepts connections
ListeningBeforeBind == appState \in {"Starting", "Running"}

Listening == appState = "Running"

\* the server accepts a connection and reads a request that matches a route
Accept(r) ==
  /\ Listening
  /\ Quiet
  /\ req[r].pc = "new"
  /\ \A q \in Requests : q < r => req[q].pc # "new"
  /\ \E in \in Inputs :
       req' = [ req EXCEPT ![r].in = in, ![r].pc = "stage",
                           ![r].usesSeen = Len(middleware) ]
  /\ UNCHANGED << appVars, regVars, now, nextXid, calls, errShared, healthChecks >>

\* the request matches no route (path unknown, or the method is not the one
\* given to Methods): the router answers with its not-found / method-not-
\* allowed handler; the middlewares given to Router.Use run on a match only
NotFound(r) ==
  /\ Listening
  /\ Quiet
  /\ req[r].pc = "new"
  /\ \A q \in Requests : q < r => req[q].pc # "new"
  /\ req' = [ req EXCEPT ![r] =
                [ @ EXCEPT !.pc = "done", !.status = 404,
                           !.outcome = "completed" ] ]
  /\ UNCHANGED << appVars, regVars, now, nextXid, calls, errShared, healthChecks >>

\* handlers.CORS for a request that is not a preflight: headers, then next
CORSStage(r) ==
  /\ AtStage(r, "cors")
  /\ req' = [ req EXCEPT ![r] = Enter(@, "cors") ]
  /\ UNCHANGED << appVars, regVars, now, nextXid, calls, errShared, healthChecks >>

\* xid.New(): the generator's counter moves on with every id
xidNextStuck(n) == n

xidNext(n) == n + 1

\* requestIDMiddleware
RequestIDStage(r) ==
  /\ AtStage(r, "requestID")
  /\ req' = [ req EXCEPT ![r] =
                [ Enter(@, "requestID") EXCEPT
                    !.hdrReqID = nextXid,
                    !.ctx = @ \cup { << contextKeyRequestID, nextXid >> } ] ]
  /\ nextXid' = xidNext(nextXid)
  /\ UNCHANGED << appVars, regVars, now, calls, errShared, healthChecks >>

\* securityHeadersMiddleware
SecurityHeadersStage(r) ==
  /\ AtStage(r, "securityHeaders")
  /\ req' = [ req EXCEPT ![r] = Enter(@, "securityHeaders") ]
  /\ UNCHANGED << appVars, regVars, now, nextXid, calls, errShared, healthChecks >>

\* rateLimiterMiddleware, line 131: the gate is skipped for an empty client
\* identifier unless the strategy is global
SkipsGateNever(cfg, clientID) == FALSE

SkipsGate(cfg, clientID) == clientID = NoKey /\ cfg.Strategy # "global"

\* rateLimiterMiddleware up to the call of getLimiter
RateLimiterStage(r) ==
  /\ AtStage(r, "rateLimiter")
  /\ LET clientID == getClientIdentifier(Config, req[r].in)
         rq == Enter(req[r], "rateLimiter")
     IN  IF ~ Config.RateLimiterEnabled \/ SkipsGate(Config, clientID)
         THEN req' = [ req EXCEPT ![r] = rq ]
         ELSE req' = [ req EXCEPT ![r] =
                         [ rq EXCEPT !.pc = "getLimiter", !.key = clientID ] ]
  /\ UNCHANGED << appVars, regVars, now, nextXid, calls, errShared, healthChecks >>

\* the denied branch without its error response and its return
DeniedFallsThrough(rq) ==
  [ rq EXCEPT !.denied = TRUE, !.retryAfter = 60, !.pc = "stage" ]

\* rateLimiterMiddleware, the denied branch: request id from r.Context(),
\* Retry-After, a.JSONError(w, apiErr), return
Denied(rq) ==
  IF ctxValue(rq.ctx, contextKeyRequestID) = NoID
  THEN Panicked([ rq EXCEPT !.denied = TRUE ])
  ELSE HandleErrorHere([ rq EXCEPT !.denied = TRUE, !.retryAfter = 60 ],
                       APIErr(429))

\* rateLimiterMiddleware: limiter.Allow(), then next or the denied branch
RateLimiterAllow(r) ==
  /\ Serving
  /\ Quiet
  /\ req[r].pc = "allow"
  /\ LET id == req[r].lim
     IN  /\ buckets' = [ buckets EXCEPT ![id] = AllowNext(@, now) ]
         /\ IF AllowOk(buckets[id], now)
            THEN req' = [ req EXCEPT ![r].pc = "stage", ![r].lim = NoLimiter,
                                     ![r].allowCalls = @ + 1 ]
            ELSE req' = [ req EXCEPT ![r] =
                            Denied([ @ EXCEPT !.lim = NoLimiter,
                                              !.allowCalls = @ + 1 ]) ]
  /\ UNCHANGED << appVars, limiters, evicted, sweepLog, mu, cleanupStopped,
                  sweepPc, cleanupC, highSeen, now, nextXid, calls, errShared, healthChecks >>

\* a stage that wraps w in a loggingResponseWriter
Wrap(rq, name) ==
  [ Enter(rq, name) EXCEPT
      !.lrw = Append(@, [ statusCode |-> 200, context |-> rq.ctx ]) ]

\* metricsMiddleware, up to next.ServeHTTP
MetricsStage(r) ==
  /\ AtStage(r, "metrics")
  /\ req' = [ req EXCEPT ![r] = Wrap(@, "metrics") ]
  /\ UNCHANGED << appVars, regVars, now, nextXid, calls, errShared, healthChecks >>

\* logMiddleware, up to next.ServeHTTP
LogStage(r) ==
  /\ AtStage(r, "log")
  /\ req' = [ req EXCEPT ![r] = Wrap(@, "log") ]
  /\ UNCHANGED << appVars, regVars, now, nextXid, calls, errShared, healthChecks >>

\* recoveryMiddleware: the deferred recover is armed, then next
RecoveryStage(r) ==
  /\ AtStage(r, "recovery")
  /\ req' = [ req EXCEPT ![r] =
                [ Enter(@, "recovery") EXCEPT !.recDepth = Len(req[r].lrw) ] ]
  /\ UNCHANGED << appVars, regVars, now, nextXid, calls, errShared, healthChecks >>

\* timeoutMiddleware: context.WithTimeout, then next
TimeoutStage(r) ==
  /\ AtStage(r, "timeout")
  /\ req' = [ req EXCEPT ![r] = Enter(@, "timeout") ]
  /\ UNCHANGED << appVars, regVars, now, nextXid, calls, errShared, healthChecks >>

\* App.Handle's closure calls the business handler
HandlerStart(r) ==
  /\ AtStage(r, "handler")
  /\ req' = [ req EXCEPT ![r] =
                [ Enter(@, "handler") EXCEPT
                    !.pc = "handler", !.handlerCalls = @ + 1 ] ]
  /\ UNCHANGED << appVars, regVars, now, nextXid, calls, errShared, healthChecks >>

DataDoc ==
  [ kind |-> "data", code |-> 200, message |-> "", details |-> FALSE,
    request_id |-> NoID ]

\* the business handler ends: it wrote its response, returned an error to
\* App.Handle (before or after writing), or panicked
HandlerEnd(rq, outcome) ==
  LET d == Len(rq.lrw)
      wrote == JSON(rq, d, 200, DataDoc)
  IN  CASE outcome = "ok" -> Returned(wrote)
        [] outcome = "apiError" -> HandleErrorHere(rq, APIErr(400))
        [] outcome = "plainError" -> HandleErrorHere(rq, PlainErr)
        [] outcome = "writeThenError" -> HandleErrorHere(wrote, PlainErr)
        [] outcome = "panic" -> Panicked(rq)
        [] outcome = "writeThenPanic" -> Panicked(wrote)

HandlerReturn(r) ==
  /\ Serving
  /\ Quiet
  /\ req[r].pc = "handler"
  /\ \E outcome \in HandlerOutcomes :
       req' = [ req EXCEPT ![r] =
                HandlerEnd([ @ EXCEPT !.fault = outcome ], outcome) ]
  /\ UNCHANGED << appVars, regVars, now, nextXid, calls, errShared, healthChecks >>


\* ---------------------------------------------------------------- lifecycle
InFlight == { r \in Requests : req[r].pc \notin {"new", "done"} }

\* NewApp: app.ctx, app.cancel = context.WithCancel(context.Background())
appContext == "app.ctx"

\* Start: http.Server is built without BaseContext, so every r.Context()
\* descends from the server's own context.Background()
requestBaseContext == "context.Background"

\* a root context is done once its cancel function has been called; nothing
\* cancels the server's background context
RootDone(root) == root = appContext /\ ctxCancelled

\* ctx.Done() of the ctx App.Handle hands to the handler: r.Context() behind
\* timeoutMiddleware's WithTimeout; it ends with its root, or when ServeHTTP
\* has returned or the connection was closed (HandlerTimeout, 30s by default,
\* does not elapse within the clock's range)
HandlerCtxDone(rq) == RootDone(requestBaseContext) \/ rq.pc = "done"

\* Start: applyMiddleware, the server is built, ListenAndServe is launched
Start ==
  /\ appState = "Created"
  /\ routerUse' = applyMiddleware(routerUse, middleware)
  /\ appState' = "Starting"
  /\ UNCHANGED << Config, startResult, middleware, ctxCancelled, deadline, draining, wg,
                  regVars, now, nextXid, req, calls, errShared, healthChecks >>

\* ListenAndServe bound the port and serves
ListenOK ==
  /\ appState = "Starting"
  /\ appState' = "Running"
  /\ UNCHANGED << Config, startResult, middleware, routerUse, ctxCancelled,
                  deadline, draining, wg, regVars, now, nextXid, req, calls, errShared, healthChecks >>

\* ListenAndServe failed: Start returns "server error: ..."
ListenFail ==
  /\ appState = "Starting"
  /\ appState' = "Stopped"
  /\ startResult' = "error"
  /\ UNCHANGED << Config, middleware, routerUse, ctxCancelled, deadline, draining, wg,
                  regVars, now, nextXid, req, calls, errShared, healthChecks >>

\* the termination signal arrives; gracefulShutdown up to server.Shutdown:
\* a.cancel(), rateLimiter.stop(), context.WithTimeout(ShutdownTimeout)
GracefulShutdownBegin ==
  /\ appState \in {"Starting", "Running"}
  /\ Quiet
  /\ appState' = "ShuttingDown"
  /\ ctxCancelled' = TRUE
  /\ cleanupStopped' = (Config.RateLimiterEnabled \/ cleanupStopped)
  /\ deadline' = now + ShutdownTimeout
  /\ draining' = (InFlight # {})
  /\ UNCHANGED << Config, startResult, middleware, routerUse, wg, limiters,
                  buckets, evicted, sweepLog, mu, sweepPc, cleanupC, highSeen,
                  now, nextXid, req, calls, errShared, healthChecks >>

\* server.Shutdown returns nil once no connection is serving a request
ShutdownNeverWaits == TRUE

ShutdownIdle == InFlight = {}

\* server.Shutdown gives up when its context is done
ShutdownExpired == now >= deadline /\ ~ ShutdownIdle

\* gracefulShutdown: Shutdown returned nil, a.wg.Wait(), return nil
GracefulShutdownDone ==
  /\ appState = "ShuttingDown"
  /\ Quiet
  /\ ShutdownIdle
  /\ wg = 0
  /\ appState' = "Stopped"
  /\ startResult' = "nil"
  /\ UNCHANGED << Config, middleware, routerUse, ctxCancelled, deadline, draining, wg,
                  regVars, now, nextXid, req, calls, errShared, healthChecks >>

\* server.Close(): every connection is closed, served or not
CloseKeepsConnections(rs) == rs

Close(rs) ==
  [ r \in DOMAIN rs |->
      IF rs[r].pc \notin {"new", "done"}
      THEN [ rs[r] EXCEPT !.pc = "done", !.outcome = "forceClosed" ]
      ELSE rs[r] ]

\* gracefulShutdown: Shutdown returned the context's error, server.Close(),
\* return an error
GracefulShutdownTimeout ==
  /\ appState = "ShuttingDown"
  /\ Quiet
  /\ ShutdownExpired
  /\ req' = Close(req)
  /\ mu' = IF mu \in Requests THEN NoHolder ELSE mu
  /\ appState' = "Stopped"
  /\ startResult' = "error"
  /\ UNCHANGED << Config, middleware, routerUse, ctxCancelled, deadline, draining, wg,
                  limiters, buckets, evicted, sweepLog, cleanupStopped, sweepPc,
                  cleanupC, highSeen, now, nextXid, calls, errShared, healthChecks >>

\* the clock advances; an expired Shutdown context is acted on first
Tick ==
  /\ Serving
  /\ Quiet
  /\ now < MaxTime
  /\ ~ (appState = "ShuttingDown" /\ ShutdownExpired)
  /\ now' = now + 1
  /\ UNCHANGED << appVars, regVars, nextXid, req, calls, errShared, healthChecks >>

RequestStep(r) ==
  \/ Accept(r)
  \/ NotFound(r)
  \/ CORSStage(r)
  \/ RequestIDStage(r)
  \/ SecurityHeadersStage(r)
  \/ RateLimiterStage(r)
  \/ GetLimiterLock(r)
  \/ GetLimiterLookup(r)
  \/ GetLimiterStore(r)
  \/ RateLimiterAllow(r)
  \/ MetricsStage(r)
  \/ LogStage(r)
  \/ RecoveryStage(r)
  \/ TimeoutStage(r)
  \/ HandlerStart(r)
  \/ HandlerReturn(r)

Next ==
  \/ Start
  \/ ListenOK
  \/ ListenFail
  \/ GracefulShutdownBegin
  \/ GracefulShutdownDone
  \/ GracefulShutdownTimeout
  \/ Tick
  \/ TickerFire
  \/ SweepRecv
  \/ SweepLock
  \/ SweepScan
  \/ \E r \in Requests : RequestStep(r)

Spec == Init /\ [][Next]_vars


\* ------------------------------------------------- token-bucket scenario
\* One caller, one key: the bucket is obtained through getLimiter at time 0
\* and Allow() is then called again and again while the clock (in seconds)
\* advances.  Rate and burst range over BucketConfigs.
ScenarioConfigs ==
  { [ Strategy |-> "global", RequestsPerS |-> p[1], Burst |-> p[2],
      RateLimiterEnabled |-> TRUE, MetricsEnabled |-> TRUE,
      CORSEnabled |-> TRUE, LogLevel |-> "info" ] : p \in BucketConfigs }

InitBucket == \E cfg \in ScenarioConfigs : InitWith(cfg, "Scenario")

\* limiter.Allow() on the bucket getLimiter returned
ScenarioAllow ==
  /\ appState = "Scenario"
  /\ req[1].pc = "allow"
  /\ Len(calls) < Config.Burst + Config.RequestsPerS + MaxCalls
  /\ LET id == req[1].lim
     IN  /\ calls' = Append(calls, [ t |-> now, ok |-> AllowOk(buckets[id], now) ])
         /\ buckets' = [ buckets EXCEPT ![id] = AllowNext(@, now) ]
  /\ UNCHANGED << appVars, limiters, evicted, sweepLog, mu, cleanupStopped,
                  sweepPc, cleanupC, highSeen, now, nextXid, req, errShared, healthChecks >>

\* one second passes
ScenarioWait ==
  /\ appState = "Scenario"
  /\ req[1].pc = "allow"
  /\ now < MaxTime
  /\ now' = now + 1
  /\ UNCHANGED << appVars, regVars, nextXid, req, calls, errShared, healthChecks >>

NextBucket ==
  \/ GetLimiterLock(1)
  \/ GetLimiterLookup(1)
  \/ GetLimiterStore(1)
  \/ ScenarioAllow
  \/ ScenarioWait

SpecBucket == InitBucket /\ [][NextBucket]_vars


\* ---------------------------------------------------- identity scenario
\* getClientIdentifier applied to requests whose X-Forwarded-For header,
\* remote address and Authorization header range over IdentityInputs, under
\* every strategy the config validation admits.
IdentityInputs ==
  [ xff : {"", "1.1.1.1"}, remote : {"10.0.0.1", "10.0.0.2"},
    auth : {"", "tok"} ]

InitIdentity ==
  \E cfg \in MainConfigs, f \in [ Requests -> IdentityInputs ] :
    InitState(cfg, "Identity",
              [ r \in Requests |->
                  [ NewRequest EXCEPT !.in = f[r], !.pc = "resolve" ] ],
              ErrInternalServer)

\* clientID := a.getClientIdentifier(r)
ResolveIdentity(r) ==
  /\ appState = "Identity"
  /\ req[r].pc = "resolve"
  /\ req' = [ req EXCEPT ![r].key = getClientIdentifier(Config, req[r].in),
                         ![r].pc = "resolved" ]
  /\ UNCHANGED << appVars, regVars, now, nextXid, calls, errShared, healthChecks >>

NextIdentity == \E r \in Requests : ResolveIdentity(r)

SpecIdentity == InitIdentity /\ [][NextIdentity]_vars


\* ------------------------------------------------------- error scenario
\* Requests that have passed the request-id and logging stages and whose
\* handler returned an error: a fresh typed error with or without details,
\* Decode's validation error, an untyped error, or a package-level *APIError
\* that every request shares.  handleError runs as two steps, normalizeError
\* and the write, so that two requests can interleave on the shared value.
LogLevels == {"info", "debug"}

\* Decode, lines 553-557: the validation error carries details in debug only
DecodeError(cfg) == APIErrWith(400, cfg.LogLevel = "debug")

ErrorChoices(cfg) ==
  { [ err |-> e, shared |-> FALSE ] :
      e \in { APIErrWith(400, TRUE), APIErr(404), DecodeError(cfg), PlainErr } }
    \cup { [ err |-> NoErr, shared |-> TRUE ] }

ErrConfigs ==
  { [ Strategy |-> "ip", RequestsPerS |-> 1, Burst |-> 1,
      RateLimiterEnabled |-> TRUE, MetricsEnabled |-> TRUE,
      CORSEnabled |-> TRUE, LogLevel |-> l ] : l \in LogLevels }

\* a request inside its handler, behind requestIDMiddleware and logMiddleware
FailingRequest(r, c) ==
  LET ctx == { << contextKeyRequestID, r >> }
  IN  [ NewRequest EXCEPT
          !.pc = "normalize",
          !.ctx = ctx,
          !.hdrReqID = r,
          !.lrw = << [ statusCode |-> 200, context |-> ctx ] >>,
          !.trace = << "requestID", "log", "handler" >>,
          !.handlerCalls = 1,
          !.err = c.err,
          !.shared = c.shared ]

InitErr ==
  \E cfg \in ErrConfigs, withDetails \in BOOLEAN :
    \E f \in [ Requests -> ErrorChoices(cfg) ] :
      InitState(cfg, "Errors",
                [ r \in Requests |-> FailingRequest(r, f[r]) ],
                [ ErrInternalServer EXCEPT !.details = withDetails ])

\* handleError, lines 42-43: reqID, then normalizeError, which assigns
\* RequestID and Details through the *APIError it was given
NormalizeStep(r) ==
  /\ appState = "Errors"
  /\ req[r].pc = "normalize"
  /\ LET reqID == getRequestIDFromContext(req[r], Len(req[r].lrw))
     IN  IF req[r].shared
         THEN LET apiError == normalizeError(Config, errShared, reqID)
              IN  /\ errShared' = [ errShared EXCEPT
                                      !.details = apiError.details,
                                      !.request_id = apiError.request_id ]
                  /\ req' = [ req EXCEPT ![r].pc = "encode" ]
         ELSE /\ errShared' = errShared
              /\ req' = [ req EXCEPT
                            ![r].pc = "encode",
                            ![r].apiErr = normalizeError(Config, req[r].err, reqID) ]
  /\ UNCHANGED << appVars, regVars, now, nextXid, calls, healthChecks >>

\* the *APIError as json.Encoder reads it
Envelope(e) ==
  [ kind |-> "error", code |-> e.code, message |-> e.text,
    details |-> e.details, request_id |-> e.request_id ]

\* handleError, lines 51-53: WriteHeader(apiError.Code), Encode(apiError)
EncodeStep(r) ==
  /\ appState = "Errors"
  /\ req[r].pc = "encode"
  /\ LET doc == IF req[r].shared THEN Envelope(errShared) ELSE req[r].apiErr
     IN  req' = [ req EXCEPT ![r] =
                    [ JSON(@, Len(req[r].lrw), doc.code, doc) EXCEPT
                        !.pc = "done", !.outcome = "completed" ] ]
  /\ UNCHANGED << appVars, regVars, now, nextXid, calls, errShared, healthChecks >>

NextErr == \E r \in Requests : NormalizeStep(r) \/ EncodeStep(r)

SpecErr == InitErr /\ [][NextErr]_vars


\* ------------------------------------------------------- chain scenario
\* The application calls App.Use with a middleware of its own at any time
\* before or after Start, while requests are served.  The rate limiter is
\* disabled here; the other default stages are installed.
ChainConfigs ==
  { [ Strategy |-> "ip", RequestsPerS |-> 1, Burst |-> 1,
      RateLimiterEnabled |-> FALSE, MetricsEnabled |-> TRUE,
      CORSEnabled |-> TRUE, LogLevel |-> "info" ] }

InitChain == \E cfg \in ChainConfigs : InitWith(cfg, "Created")

\* what App.Use does to the router: it appends to a.middleware only
routerAfterUseInstalls(ru, m) == Append(ru, m)

routerAfterUse(ru, m) == ru

\* a.Use(custom), called by the application
UseCustom ==
  /\ appState \in {"Created", "Starting", "Running"}
  /\ Quiet
  /\ Len(middleware) < Len(defaultMiddleware(Config)) + MaxUse
  /\ middleware' = Use(middleware, "custom")
  /\ routerUse' = routerAfterUse(routerUse, "custom")
  /\ UNCHANGED << Config, appState, startResult, ctxCancelled, deadline,
                  draining, wg, regVars, now, nextXid, req, calls, errShared, healthChecks >>

\* the application's own middleware: it calls next
CustomStage(r) ==
  /\ AtStage(r, "custom")
  /\ req' = [ req EXCEPT ![r] = Enter(@, "custom") ]
  /\ UNCHANGED << appVars, regVars, now, nextXid, calls, errShared, healthChecks >>

NextChain ==
  \/ Start
  \/ ListenOK
  \/ UseCustom
  \/ \E r \in Requests :
       \/ Accept(r)
       \/ CORSStage(r)
       \/ RequestIDStage(r)
       \/ SecurityHeadersStage(r)
       \/ MetricsStage(r)
       \/ LogStage(r)
       \/ RecoveryStage(r)
       \/ TimeoutStage(r)
       \/ CustomStage(r)
       \/ HandlerStart(r)
       \/ HandlerReturn(r)

SpecChain == InitChain /\ [][NextChain]_vars


\* ------------------------------------------------------ eviction scenario
\* One key ("global"), two client connections that send request after
\* request: each request runs getLimiter and then Allow() once, the clock
\* advances and the sweeper runs.  The burst ranges over EvictBursts, the
\* rate is one token per clock unit, the TTL is TTL.
MaxCycles == 4

EvictBursts == {1, 3}

EvictConfigs ==
  { [ Strategy |-> "global", RequestsPerS |-> 1, Burst |-> b,
      RateLimiterEnabled |-> TRUE, MetricsEnabled |-> TRUE,
      CORSEnabled |-> TRUE, LogLevel |-> "info" ] : b \in EvictBursts }

InitEvict ==
  \E cfg \in EvictConfigs :
    InitState(cfg, "Scenario",
              [ r \in Requests |->
                  [ NewRequest EXCEPT
                      !.pc = "getLimiter",
                      !.key = getClientIdentifier(cfg, NewRequest.in) ] ],
              ErrInternalServer)

\* rateLimiterMiddleware: limiter.Allow() on the bucket getLimiter returned;
\* the connection's next request starts at getLimiter again
EvictAllow(r) ==
  /\ appState = "Scenario"
  /\ req[r].pc = "allow"
  /\ Len(calls) < MaxCycles
  /\ LET id == req[r].lim
     IN  /\ calls' = Append(calls, [ t |-> now, ok |-> AllowOk(buckets[id], now) ])
         /\ buckets' = [ buckets EXCEPT ![id] = AllowNext(@, now) ]
  /\ req' = [ req EXCEPT ![r].pc = "getLimiter", ![r].lim = NoLimiter ]
  /\ UNCHANGED << appVars, limiters, evicted, sweepLog, mu, cleanupStopped,
                  sweepPc, cleanupC, highSeen, now, nextXid, errShared, healthChecks >>

\* one clock unit passes
EvictWait ==
  /\ appState = "Scenario"
  /\ now < MaxTime
  /\ now' = now + 1
  /\ UNCHANGED << appVars, regVars, nextXid, req, calls, errShared, healthChecks >>

NextEvict ==
  \/ \E r \in Requests :
       \/ GetLimiterLock(r)
       \/ GetLimiterLookup(r)
       \/ GetLimiterStore(r)
       \/ EvictAllow(r)
  \/ EvictWait
  \/ TickerFire
  \/ SweepRecv
  \/ SweepLock
  \/ SweepScan

SpecEvict == InitEvict /\ [][NextEvict]_vars


\* ---------------------------------------------------- user-route scenario
\* Requests to the five user routes, behind the request-id and logging
\* stages.  Each request meets one situation: a body that is not JSON, fields
\* the validator rejects, a path id that is not a number, an e-mail address
\* that is taken, a user that does not exist, a wrong password, a failure
\* of the repository, or none of these.  (validatePassword cannot fail after
\* Decode's validation of min=8 and is left out.)
Routes == {"Register", "Login", "GetUser", "UpdateUser", "DeleteUser"}

\* the situations each route can meet
RouteCases ==
  ({"Register"} \X {"ok", "badBody", "invalidFields", "emailExists",
                    "repoFailure"})
  \cup ({"Login"} \X {"ok", "badBody", "invalidEmail", "notFound",
                      "wrongPassword", "repoFailure"})
  \cup ({"GetUser"} \X {"ok", "badID", "notFound", "repoFailure"})
  \cup ({"UpdateUser"} \X {"ok", "badID", "badBody", "invalidFields",
                           "notFound", "emailExists", "repoFailure"})
  \cup ({"DeleteUser"} \X {"ok", "badID", "notFound", "repoFailure"})

\* var ( ErrUserNotFound = errors.New(...) ... ): plain errors
ServiceErr(text) ==
  [ api |-> FALSE, code |-> 0, text |-> text, details |-> FALSE ]

ErrUserNotFound == ServiceErr("user not found")

ErrEmailExists == ServiceErr("email already registered")

ErrInvalidCredentials == ServiceErr("invalid credentials")

\* what a service method or a handler returns: nil (with the status the
\* handler wrote), a fresh error value, or micro.ErrInternalServer itself
Nil == [ err |-> NoErr, shared |-> FALSE, code |-> 0 ]

Fail(e) == [ err |-> e, shared |-> FALSE, code |-> 0 ]

FailShared == [ err |-> NoErr, shared |-> TRUE, code |-> 0 ]

Wrote(code) == [ err |-> NoErr, shared |-> FALSE, code |-> code ]

\* App.Decode: 400 "invalid request body", 400 "validation failed", or nil
Decode(cfg, sit) ==
  CASE sit = "badBody" -> Fail(APIErr(400))
    [] sit = "invalidFields" -> Fail(DecodeError(cfg))
    [] OTHER -> Nil

\* App.URLParamInt
URLParamInt(sit) == IF sit = "badID" THEN Fail(APIErr(400)) ELSE Nil

RegisterUser(sit) ==
  CASE sit = "emailExists" -> Fail(ErrEmailExists)
    [] sit = "repoFailure" -> FailShared
    [] OTHER -> Nil

GetUserByID(sit) ==
  CASE sit = "notFound" -> Fail(ErrUserNotFound)
    [] sit = "repoFailure" -> FailShared
    [] OTHER -> Nil

UpdateUserService(sit) ==
  CASE sit = "notFound" -> Fail(ErrUserNotFound)
    [] sit = "emailExists" -> Fail(ErrEmailExists)
    [] sit = "repoFailure" -> FailShared
    [] OTHER -> Nil

DeleteUserService(sit) ==
  CASE sit = "notFound" -> Fail(ErrUserNotFound)
    [] sit = "repoFailure" -> FailShared
    [] OTHER -> Nil

Authenticate(sit) ==
  CASE sit = "invalidEmail" -> Fail(APIErr(403))
    [] sit \in {"notFound", "wrongPassword"} -> Fail(ErrInvalidCredentials)
    [] sit = "repoFailure" -> FailShared
    [] OTHER -> Nil

\* UserHandler.Register: Decode's and the service's errors are returned as
\* they are
Register(cfg, sit) ==
  IF Decode(cfg, sit) # Nil THEN Decode(cfg, sit)
  ELSE IF RegisterUser(sit) # Nil THEN RegisterUser(sit)
  ELSE Wrote(201)

\* UserHandler.Login: every error of Authenticate becomes a 401
Login(cfg, sit) ==
  IF Decode(cfg, sit) # Nil THEN Decode(cfg, sit)
  ELSE IF Authenticate(sit) # Nil THEN Fail(APIErr(401))
  ELSE Wrote(200)

GetUser(cfg, sit) ==
  LET s == GetUserByID(sit)
  IN  IF URLParamInt(sit) # Nil THEN Fail(APIErr(400))
      ELSE IF s = Nil THEN Wrote(200)
      ELSE IF s = Fail(ErrUserNotFound) THEN Fail(APIErr(404))
      ELSE Fail(APIErr(500))

UpdateUser(cfg, sit) ==
  LET s == UpdateUserService(sit)
  IN  IF URLParamInt(sit) # Nil THEN Fail(APIErr(400))
      ELSE IF Decode(cfg, sit) # Nil THEN Decode(cfg, sit)
      ELSE IF s = Nil THEN Wrote(200)
      ELSE IF s = Fail(ErrUserNotFound) THEN Fail(APIErr(404))
      ELSE IF s = Fail(ErrEmailExists) THEN Fail(APIErr(409))
      ELSE Fail(APIErr(500))

DeleteUser(cfg, sit) ==
  LET s == DeleteUserService(sit)
  IN  IF URLParamInt(sit) # Nil THEN Fail(APIErr(400))
      ELSE IF s = Nil THEN Wrote(204)
      ELSE IF s = Fail(ErrUserNotFound) THEN Fail(APIErr(404))
      ELSE Fail(APIErr(500))

\* the handler registered for the route
UserHandler(cfg, route, sit) ==
  CASE route = "Register" -> Register(cfg, sit)
    [] route = "Login" -> Login(cfg, sit)
    [] route = "GetUser" -> GetUser(cfg, sit)
    [] route = "UpdateUser" -> UpdateUser(cfg, sit)
    [] route = "DeleteUser" -> DeleteUser(cfg, sit)

\* a request inside App.Handle's closure, about to call the route's handler
RouteRequest(r, c) ==
  [ FailingRequest(r, Nil) EXCEPT
      !.pc = "handler", !.route = c[1], !.situation = c[2] ]

InitRoutes ==
  \E cfg \in ErrConfigs :
    \E f \in [ Requests -> RouteCases ] :
      InitState(cfg, "Errors",
                [ r \in Requests |-> RouteRequest(r, f[r]) ],
                ErrInternalServer)

\* App.Handle: err := handler(ctx, w, r); the handler wrote its response
\* and returned nil, or returned an error for a.handleError(w, err)
RouteHandle(r) ==
  /\ appState = "Errors"
  /\ req[r].pc = "handler"
  /\ LET res == UserHandler(Config, req[r].route, req[r].situation)
         d == Len(req[r].lrw)
     IN  IF res.code # 0
         THEN req' = [ req EXCEPT ![r] =
                         [ JSON(@, d, res.code,
                                [ DataDoc EXCEPT !.code = res.code ])
                           EXCEPT !.pc = "done", !.outcome = "completed" ] ]
         ELSE req' = [ req EXCEPT ![r].pc = "normalize",
                                  ![r].err = res.err,
                                  ![r].shared = res.shared ]
  /\ UNCHANGED << appVars, regVars, now, nextXid, calls, errShared, healthChecks >>

NextRoutes ==
  \E r \in Requests : RouteHandle(r) \/ NormalizeStep(r) \/ EncodeStep(r)

SpecRoutes == InitRoutes /\ [][NextRoutes]_vars


\* --------------------------------------------------------- health scenario
\* The application registers health checks before Start; requests to
\* /health then pass the installed stages (rate limiter disabled) and reach
\* healthHandler, where every registered check runs and succeeds or fails.
CheckNames == {"db", "cache"}

\* the key healthHandler reads the start time under
stringKeyStartTime == <<"string", "start_time">>

InitHealth ==
  \E cfg \in ChainConfigs :
    InitState(cfg, "Created",
              [ r \in Requests |-> [ NewRequest EXCEPT !.route = "health" ] ],
              ErrInternalServer)

\* AddHealthCheck: a.healthChecks[name] = check
AddHealthCheck(name) ==
  /\ appState = "Created"
  /\ name \notin healthChecks
  /\ healthChecks' = healthChecks \cup {name}
  /\ UNCHANGED << appVars, regVars, now, nextXid, req, calls, errShared >>

\* healthHandler, lines 16-52: no checks registered -> 200 {"status": "OK"};
\* else every check runs in its goroutine and stores its entry, wg.Wait()
HealthChecksRun(r) ==
  /\ Serving
  /\ Quiet
  /\ req[r].pc = "handler"
  /\ req[r].route = "health"
  /\ IF healthChecks = {}
     THEN req' = [ req EXCEPT ![r] =
                     Returned(JSON(@, Len(req[r].lrw), 200, DataDoc)) ]
     ELSE \E f \in [ healthChecks -> {"healthy", "unhealthy"} ] :
            req' = [ req EXCEPT ![r].pc = "respond", ![r].results = f ]
  /\ UNCHANGED << appVars, regVars, now, nextXid, calls, errShared, healthChecks >>

\* healthHandler, lines 59-65: 503 as soon as one entry is not healthy
HealthStatus(results) ==
  IF \E n \in DOMAIN results : results[n] # "healthy" THEN 503 ELSE 200

\* healthHandler, lines 54-73: the response is built, with
\* ctx.Value("start_time").(time.Time) for its duration, and written
HealthRespond(r) ==
  /\ Serving
  /\ Quiet
  /\ req[r].pc = "respond"
  /\ LET rq == req[r]
         d == Len(rq.lrw)
         status == HealthStatus(rq.results)
     IN  req' = [ req EXCEPT ![r] =
                    IF DOMAIN rq.results = {}
                    THEN Returned(JSON(rq, d, 200, DataDoc))
                    ELSE IF ctxValue(rq.ctx, stringKeyStartTime) = NoID
                    THEN Panicked(rq)
                    ELSE Returned(JSON(rq, d, status,
                                       [ DataDoc EXCEPT !.code = status ])) ]
  /\ UNCHANGED << appVars, regVars, now, nextXid, calls, errShared, healthChecks >>

NextHealth ==
  \/ \E name \in CheckNames : AddHealthCheck(name)
  \/ Start
  \/ ListenOK
  \/ \E r \in Requests :
       \/ Accept(r)
       \/ CORSStage(r)
       \/ RequestIDStage(r)
       \/ SecurityHeadersStage(r)
       \/ MetricsStage(r)
       \/ LogStage(r)
       \/ RecoveryStage(r)
       \/ TimeoutStage(r)
       \/ HandlerStart(r)
       \/ HealthChecksRun(r)
       \/ HealthRespond(r)

SpecHealth == InitHealth /\ [][NextHealth]_vars


\* ================================================================= claims
Done(r) == req[r].pc = "done"

ErrorDocs(rq) == { i \in 1..Len(rq.body) : rq.body[i].kind = "error" }

\* the stages the router runs after the rate-limit gate, and the handler
AfterGate ==
  { routerUse[i] : i \in { j \in 1..Len(routerUse) :
        \E g \in 1..Len(routerUse) : routerUse[g] = "rateLimiter" /\ j > g } }
    \cup {"handler"}

\* C1: every request the rate-limit gate denies is answered with status 429,
\* a Retry-After header and one JSON error document {code, message,
\* request_id}.
C1_DeniedGets429 ==
  \A r \in Requests :
    (Done(r) /\ req[r].denied) =>
      /\ req[r].outcome = "completed"
      /\ req[r].status = 429
      /\ req[r].retryAfter > 0
      /\ Len(req[r].body) = 1
      /\ req[r].body[1].kind = "error"
      /\ req[r].body[1].code = 429

\* C2: a denied request halts at the gate: no stage after the gate and no
\* handler is entered for it, its handler invocation count stays 0.
C2_DeniedHaltsAtGate ==
  \A r \in Requests :
    req[r].denied =>
      /\ req[r].handlerCalls = 0
      /\ Range(req[r].trace) \cap AfterGate = {}
      /\ req[r].pc = "done"

C2_Witness ==
  \E r \in Requests :
    Done(r) /\ req[r].denied /\ "rateLimiter" \in Range(req[r].trace)

\* C3: a panic raised in the terminal handler is caught by the recovery
\* stage and the request is answered with status 500.
C3_HandlerPanicYields500 ==
  \A r \in Requests :
    (Done(r) /\ req[r].fault \in {"panic", "writeThenPanic"}) =>
      /\ req[r].outcome = "completed"
      /\ req[r].status = 500

\* C4: in every error response the request_id of the JSON error body equals
\* the X-Request-ID header of that response.
C4_ErrorBodyMatchesHeader ==
  \A r \in Requests :
    (Done(r) /\ req[r].outcome = "completed") =>
      \A i \in ErrorDocs(req[r]) :
        req[r].body[i].request_id = req[r].hdrReqID

\* C5: the registry holds one limiter object per key -- every limiter object
\* ever created and not removed by a sweep is the one registered under its
\* key -- and every caller that getLimiter has answered holds the registered
\* object of its key (concurrent first callers included).
LiveLimiters == (1..Len(buckets)) \ evicted

C5_OneBucketPerKey ==
  /\ LiveLimiters = { limiters[k].limiter : k \in DOMAIN limiters }
  /\ \A k1, k2 \in DOMAIN limiters :
       limiters[k1].limiter = limiters[k2].limiter => k1 = k2
  /\ \A r \in Requests :
       (req[r].pc = "allow" /\ req[r].lim \notin evicted) =>
         /\ req[r].key \in DOMAIN limiters
         /\ limiters[req[r].key].limiter = req[r].lim

C5_Witness ==
  \E r1, r2 \in Requests :
    /\ r1 # r2
    /\ req[r1].pc = "allow" /\ req[r2].pc = "allow"
    /\ req[r1].key = req[r2].key
    /\ req[r1].lim = req[r2].lim
    /\ Len(buckets) = 1

\* C6 (as stated): on a fresh bucket the first Burst immediate Allow() calls
\* succeed and every further immediate call is denied; one second later at
\* least RequestsPerS further calls succeed.
CallsAt(t) == { i \in 1..Len(calls) : calls[i].t = t }

OkAt(t) == { i \in CallsAt(t) : calls[i].ok }

ImmediateBurst ==
  \A i \in CallsAt(0) : calls[i].ok <=> i <= Config.Burst

C7_SweepRemovesExactlyStale ==
  [][ (sweepPc = "scan" /\ sweepPc' = "recv") =>
        \A k \in DOMAIN limiters :
          (k \notin DOMAIN limiters') <=> (now - limiters[k].lastSeen > TTL)
    ]_vars

C7_Witness == sweepLog.removed /\ sweepLog.keptAtTTL

\* C8: gracefulShutdown returns nil only when every request has completed,
\* and no request is force-closed unless the shutdown timeout has elapsed
\* and an error is returned.
C8_CleanShutdownWaits ==
  /\ (appState = "Stopped" /\ startResult = "nil") =>
       \A r \in Requests :
         /\ req[r].pc \in {"new", "done"}
         /\ req[r].outcome # "forceClosed"
  /\ \A r \in Requests :
       req[r].outcome = "forceClosed" =>
         (startResult = "error" /\ now >= deadline)

C8_Witness ==
  /\ appState = "Stopped"
  /\ startResult = "nil"
  /\ draining
  /\ \E r \in Requests : Done(r)
  /\ \A r \in Requests : Done(r) => req[r].outcome # "forceClosed"

\* C9: when gracefulShutdown returns with the timeout elapsed and a request
\* still in flight, every such request has been force-closed and the result
\* is an error.
C9_TimeoutForcesClose ==
  [][ ( /\ appState = "ShuttingDown"
        /\ now >= deadline
        /\ InFlight # {}
        /\ appState' = "Stopped" ) =>
        /\ startResult' = "error"
        /\ \A r \in InFlight :
             req'[r].pc = "done" /\ req'[r].outcome = "forceClosed"
    ]_vars

C9_Witness ==
  /\ appState = "Stopped"
  /\ startResult = "error"
  /\ draining
  /\ \E r \in Requests : req[r].outcome = "forceClosed"

\* C10: a request that reaches the handler went through request-id, security
\* headers, rate-limit gate, metrics, logging, recovery, deadline, cross-origin
\* policy, in this order, and the stages are left in the reverse order.
DocumentedOrder ==
  << "requestID", "securityHeaders", "rateLimiter", "metrics", "log",
     "recovery", "timeout", "cors" >>

C10_DocumentedStageOrder ==
  \A r \in Requests :
    (Done(r) /\ req[r].handlerCalls > 0 /\ req[r].outcome = "completed") =>
      /\ req[r].trace = Append(DocumentedOrder, "handler")
      /\ req[r].exits = Reverse(DocumentedOrder)

\* C11: every response the server sends carries an X-Request-ID header,
\* whatever the request's path, method or outcome.
C11_EveryResponseHasRequestID ==
  \A r \in Requests :
    (Done(r) /\ req[r].outcome = "completed" /\ req[r].status # 0) =>
      req[r].hdrReqID # NoID

\* C12: once rateLimiter.stop has been called, the cleanup goroutine begins
\* no new sweep (it takes no further tick).
C12_NoSweepAfterStop ==
  [][ cleanupStopped => ~ (sweepPc = "recv" /\ sweepPc' = "lock") ]_vars

\* C13: when gracefulShutdown has returned, the cleanup goroutine has
\* terminated and no sweep is in progress.
C13_StoppedAfterEvictorExit ==
  (appState = "Stopped" /\ ctxCancelled /\ Config.RateLimiterEnabled) =>
    (EvictorTerminated /\ ~ SweepInProgress)

\* C14: the lifecycle only moves forward through Created, Starting, Running,
\* ShuttingDown, Stopped; when ListenAndServe fails, Start returns an error,
\* Running is never reached and no request is ever served.
Rank(st) ==
  CASE st = "Created" -> 1
    [] st = "Starting" -> 2
    [] st = "Running" -> 3
    [] st = "ShuttingDown" -> 4
    [] st = "Stopped" -> 5

C14_LifecycleForwardOnly ==
  [][ /\ Rank(appState') >= Rank(appState)
      /\ (appState \in {"Created", "Starting"}) =>
           \A r \in Requests : req'[r].pc = "new"
      /\ (appState = "Starting" /\ appState' = "Stopped") =>
           startResult' = "error"
      /\ appState = "Stopped" => (req' = req /\ startResult' = startResult)
    ]_vars

C14_Witness ==
  /\ appState = "Stopped"
  /\ startResult = "error"
  /\ ~ ctxCancelled
  /\ \A r \in Requests : req[r].pc = "new"

\* C15: App.wg counts the requests that have entered the pipeline and have
\* not completed.
C15_BarrierCountsInFlight == wg = Cardinality(InFlight)

\* C16: from the moment the shutdown signal is handled (a.cancel() called),
\* the context of every handler still running is done.
C16_ShutdownCancelsHandlers ==
  \A r \in Requests :
    (ctxCancelled /\ req[r].pc = "handler") => HandlerCtxDone(req[r])

\* C17: every bucket's available tokens are at most its burst, both as
\* stored after an Allow() and as refilled at the current time, however
\* long the bucket has been idle.
C17_TokensAtMostBurst ==
  \A i \in 1..Len(buckets) :
    /\ buckets[i].tokens >= 0
    /\ buckets[i].tokens <= buckets[i].burst
    /\ advance(buckets[i], now) <= buckets[i].burst

C17_Witness ==
  /\ Config.RequestsPerS = 2 /\ Config.Burst = 1
  /\ Len(calls) > 0
  /\ now >= 1
  /\ calls[Len(calls)].t = now
  /\ calls[Len(calls)].ok
  /\ buckets[1].tokens = Config.Burst - 1

\* C18: the lastSeen recorded for a key is never below a lastSeen recorded
\* for that key before, eviction and re-creation included.
C18_LastSeenMonotonic ==
  [][ \A k \in DOMAIN limiters' :
        k \in DOMAIN highSeen => limiters'[k].lastSeen >= highSeen[k] ]_vars

C18_Witness ==
  /\ Config.Strategy = "global"
  /\ evicted # {}
  /\ "global" \in DOMAIN limiters
  /\ limiters["global"].lastSeen > 0

\* C19: a key enters the registry only in getLimiter's create branch for a
\* key that has no bucket, a later getLimiter for the key sets lastSeen to the
\* current time and keeps the bucket, and a key leaves the registry only in a
\* sweep's scan.
C19_BucketLifecycle ==
  [][ /\ \A k \in DOMAIN limiters' \ DOMAIN limiters :
           \E r \in Requests :
             /\ req[r].pc = "store" /\ req'[r].pc = "allow"
             /\ req[r].key = k /\ ~ req[r].exists
      /\ \A k \in DOMAIN limiters \ DOMAIN limiters' :
           sweepPc = "scan" /\ sweepPc' = "recv"
      /\ \A k \in DOMAIN limiters \cap DOMAIN limiters' :
           limiters'[k].limiter = limiters[k].limiter
      /\ \A r \in Requests :
           (req[r].pc = "store" /\ req'[r].pc = "allow" /\ req[r].exists) =>
             /\ req[r].key \in DOMAIN limiters'
             /\ limiters'[req[r].key].lastSeen = now
    ]_vars

C19_Witness ==
  /\ sweepLog.removed
  /\ Len(buckets) = 1
  /\ \E r1, r2 \in Requests :
       /\ r1 # r2
       /\ req[r1].key = req[r2].key
       /\ Done(r1) /\ req[r2].denied

\* C20: under the token strategy the requests with an empty Authorization
\* header share one bucket: a bucket is registered for the empty key once
\* such a request has passed the gate, and no more than Burst of them are
\* admitted within one clock tick.
C20_EmptyCredentialShared ==
  Config.Strategy = "token" =>
    LET anon == { r \in Requests :
                    /\ req[r].in.auth = ""
                    /\ "rateLimiter" \in Range(req[r].trace)
                    /\ "metrics" \in Range(req[r].trace) }
    IN  /\ anon # {} => NoKey \in DOMAIN highSeen
        /\ now = 0 => Cardinality(anon) <= Config.Burst

\* C21: when a non-global strategy yields the empty client identifier, the
\* gate passes the request on without getLimiter and without Allow(): no
\* bucket is created, looked up or charged for it, however many arrive.
GatePcs == {"getLimiter", "lookup", "store", "allow"}

C21_EmptyKeyBypassesGate ==
  /\ Config.Strategy # "global" => NoKey \notin DOMAIN highSeen
  /\ \A r \in Requests :
       ( /\ Config.Strategy # "global"
         /\ "rateLimiter" \in Range(req[r].trace)
         /\ getClientIdentifier(Config, req[r].in) = NoKey ) =>
         /\ req[r].getLimiterCalls = 0
         /\ req[r].allowCalls = 0
         /\ ~ req[r].denied
         /\ req[r].pc \notin GatePcs

C21_Witness ==
  /\ Config.Strategy = "token"
  /\ now = 0
  /\ buckets = << >>
  /\ \A r \in Requests :
       /\ req[r].in.auth = ""
       /\ "rateLimiter" \in Range(req[r].trace)
       /\ "metrics" \in Range(req[r].trace)

\* C22: with rate limiting enabled, a request that went through the gate
\* has made exactly one getLimiter call and exactly one Allow() call, both
\* before its handler starts.
C22_OneLookupOneAllow ==
  Config.RateLimiterEnabled =>
    \A r \in Requests :
      /\ req[r].getLimiterCalls <= 1
      /\ req[r].allowCalls <= 1
      /\ ( \/ req[r].handlerCalls > 0
           \/ "metrics" \in Range(req[r].trace) ) =>
           (req[r].getLimiterCalls = 1 /\ req[r].allowCalls = 1)

\* C24: at most one document is written to a response, and an error
\* envelope is written only to a response nothing has been written to.
C24_SingleResponseWrite ==
  \A r \in Requests :
    /\ Len(req[r].body) <= 1
    /\ \A i \in ErrorDocs(req[r]) : i = 1

\* C26: the request ids assigned by the request-id stage are pairwise
\* distinct, for requests in flight together included.
C26_RequestIDsDistinct ==
  \A r1, r2 \in Requests :
    (r1 # r2 /\ req[r1].hdrReqID # NoID /\ req[r2].hdrReqID # NoID) =>
      req[r1].hdrReqID # req[r2].hdrReqID

C26_Witness ==
  \E r1, r2 \in Requests :
    /\ r1 # r2
    /\ req[r1].hdrReqID # NoID /\ req[r2].hdrReqID # NoID
    /\ req[r1].pc = "handler" /\ req[r2].pc = "handler"

\* C28: a request's Allow() is made on the bucket the registry holds for
\* its key at that time.
C28_AllowOnRegisteredBucket ==
  [][ \A r \in Requests :
        (req[r].pc = "allow" /\ req'[r].allowCalls = req[r].allowCalls + 1) =>
          /\ req[r].key \in DOMAIN limiters
          /\ limiters[req[r].key].limiter = req[r].lim ]_vars

\* C29: no stage of the pipeline and no error-normalization call panics by
\* itself: a request's serving goroutine panics only when its business
\* handler panicked.
C29_NoPipelineFault ==
  \A r \in Requests :
    req[r].outcome = "panicked" => req[r].fault \in {"panic", "writeThenPanic"}

\* C23: getClientIdentifier returns, under ip, the X-Forwarded-For value
\* when it is not empty and the remote address otherwise, under token the
\* Authorization value as it is, under global one constant key; it always
\* returns and changes nothing but the caller's result.
ExpectedKey(cfg, in) ==
  IF cfg.Strategy = "ip" THEN (IF in.xff # "" THEN in.xff ELSE in.remote)
  ELSE IF cfg.Strategy = "token" THEN in.auth
  ELSE "global"

C23_IdentityIsPureFunction ==
  [][ \A r \in Requests :
        req'[r] # req[r] =>
          /\ req'[r] = [ req[r] EXCEPT !.key = ExpectedKey(Config, req[r].in),
                                       !.pc = "resolved" ]
          /\ UNCHANGED << appVars, regVars, now, nextXid, calls, errShared, healthChecks >>
          /\ \A q \in Requests :
               (req[q].in = req[r].in /\ req[q].pc = "resolved") =>
                 req[q].key = req'[r].key
    ]_vars

C23_Witness ==
  /\ Config.Strategy = "ip"
  /\ \E r1, r2 \in Requests :
       /\ req[r1].pc = "resolved" /\ req[r2].pc = "resolved"
       /\ req[r1].in.xff = "" /\ req[r1].key = req[r1].in.remote
       /\ req[r2].in.xff # "" /\ req[r2].key = req[r2].in.xff

C30_SharedErrorUntouched ==
  [][ /\ errShared' = errShared
      /\ \A r \in Requests :
           (req[r].pc = "encode" /\ req'[r].pc = "done" /\ req[r].shared) =>
             req'[r].body[1].request_id =
               getRequestIDFromContext(req[r], Len(req[r].lrw))
    ]_vars

C31_RecordedStatusIsSentStatus ==
  \A r \in Requests :
    (Done(r) /\ req[r].outcome = "completed") =>
      /\ "log" \in Range(req[r].trace) => req[r].logStatus = req[r].status
      /\ "metrics" \in Range(req[r].trace) =>
           req[r].metricStatus = req[r].status

\* the gate let the request through: Allow() was called and returned true
Admitted(r) == req[r].allowCalls > 0 /\ ~ req[r].denied

\* C32: under the per-source-address strategy the requests of one client
\* (one remote address) admitted within the time elapsed so far number at
\* most burst + rate * elapsed, whatever headers the client puts on them.
C32_HeadersCannotRaiseAdmissions ==
  Config.Strategy = "ip" =>
    \A a \in { i.remote : i \in Inputs } :
      Cardinality({ r \in Requests : req[r].in.remote = a /\ Admitted(r) })
        <= Config.Burst + Config.RequestsPerS * now

\* C34: the map lock is held by a request only between getLimiter's Lock
\* and its return, and by the sweeper only during its scan; an Allow()
\* decision is taken without the lock and leaves the lock as it finds it,
\* so it proceeds while another request or the sweeper holds the lock.
C34_AllowOutsideMapLock ==
  [][ /\ \A r \in Requests :
           (mu' = r) <=> (req'[r].pc \in {"lookup", "store"})
      /\ (mu' = Sweeper) <=> (sweepPc' = "scan")
      /\ \A r \in Requests :
           req'[r].allowCalls > req[r].allowCalls =>
             (mu' = mu /\ mu # r)
    ]_vars

\* a request has just been let through by Allow() (request-local steps run
\* before any Lock) while another request is inside getLimiter with the lock
C34_Witness ==
  \E r1, r2 \in Requests :
    /\ r1 # r2
    /\ req[r1].pc = "stage"
    /\ req[r1].allowCalls = 1
    /\ req[r1].pos > 1
    /\ routerUse[req[r1].pos - 1] = "rateLimiter"
    /\ mu = r2
    /\ req[r2].pc \in {"lookup", "store"}

\* C36: whenever Start has returned, on the bind-failure path too, the
\* evictor's ticker has been stopped and the application's cancellation
\* signal has been triggered.
C36_StartReturnStopsBackground ==
  appState = "Stopped" => (cleanupStopped /\ ctxCancelled)

\* C33: when a key's bucket was evicted and the key's next request creates
\* a new one, the new bucket holds no more tokens than the evicted bucket
\* would hold now, had it been kept and refilled.
C33_RecreatedNotRicher ==
  [][ Len(buckets') > Len(buckets) =>
        \A i \in evicted :
          buckets'[Len(buckets')].tokens <= advance(buckets[i], now)
    ]_vars

\* the situations that are the caller's doing
BusinessFailures ==
  {"badBody", "invalidFields", "badID", "invalidEmail", "emailExists",
   "notFound", "wrongPassword"}

\* C35: on every user route, a request that fails for a business reason
\* (duplicate e-mail, user not found, invalid credentials, invalid input) is
\* answered with a 4xx status, and a 500 is sent only when a lower layer
\* failed unexpectedly.
C35_BusinessFailuresAre4xx ==
  \A r \in Requests :
    (Done(r) /\ req[r].route \in Routes) =>
      /\ req[r].situation \in BusinessFailures =>
           req[r].status \in 400..499
      /\ req[r].status = 500 => req[r].situation = "repoFailure"

\* C37: a request to the health endpoint is answered with 200 when no check
\* is registered; with checks registered it is answered with 200 when every
\* check succeeds and 503 when one fails, with one result entry per
\* registered check.
C37_HealthStatusReflectsChecks ==
  \A r \in Requests :
    (Done(r) /\ req[r].route = "health" /\ req[r].handlerCalls > 0) =>
      IF healthChecks = {}
      THEN req[r].status = 200
      ELSE /\ DOMAIN req[r].results = healthChecks
           /\ req[r].status = HealthStatus(req[r].results)

====
